---- MODULE Spec2Model ----
(***************************************************************************)
(* EUDA Remediation Tool: the complexity/difficulty scoring model, the     *)
(* formula classifier, the data-source extractor and the data-model        *)
(* recommender (src/euda-remediation-app.py, src/euda-utils.py).           *)
(*                                                                         *)
(* Text is modelled as TLA+ strings, character by character: Len, SubSeq   *)
(* and \o act on strings as on sequences of characters.                    *)
(*                                                                         *)
(* Numbers: Python computes the scores in floating point.  The complexity  *)
(* score is a sum of multiples of 0.5 and of one term length/100, so it is *)
(* kept here exactly, in hundredths (a score of 20 is 2000).  The          *)
(* difficulty score adds half of it, and is kept in two-hundredths.        *)
(***************************************************************************)
EXTENDS Integers, Sequences, FiniteSets, TLC

(***************************************************************************)
(* Characters and Python's string methods                                  *)
(***************************************************************************)

UpperLetters == "ABCDEFGHIJKLMNOPQRSTUVWXYZ"
LowerLetters == "abcdefghijklmnopqrstuvwxyz"

\* The characters str.strip() removes.
Whitespace == {" ", "\t", "\n", "\r", "\f"}

Ch(s, i) == SubSeq(s, i, i)

Min(a, b) == IF a <= b THEN a ELSE b

\* str.lower() on one character.
LowerOf == [c \in {Ch(UpperLetters, i) : i \in 1..26} |->
              Ch(LowerLetters, CHOOSE i \in 1..26 : Ch(UpperLetters, i) = c)]

LowerChar(c) == IF c \in DOMAIN LowerOf THEN LowerOf[c] ELSE c

\* str.lower()
RECURSIVE Lower(_)
Lower(s) ==
    IF Len(s) = 0 THEN ""
    ELSE IF Len(s) = 1 THEN LowerChar(s)
    ELSE LET h == Len(s) \div 2
         IN  Lower(SubSeq(s, 1, h)) \o Lower(SubSeq(s, h + 1, Len(s)))

\* str.strip()
RECURSIVE LStrip(_)
LStrip(s) == IF Len(s) > 0 /\ Ch(s, 1) \in Whitespace
             THEN LStrip(SubSeq(s, 2, Len(s))) ELSE s

RECURSIVE RStrip(_)
RStrip(s) == IF Len(s) > 0 /\ Ch(s, Len(s)) \in Whitespace
             THEN RStrip(SubSeq(s, 1, Len(s) - 1)) ELSE s

Strip(s) == RStrip(LStrip(s))

\* sub occurs in s at position p.
At(sub, s, p) == p >= 1 /\ p + Len(sub) - 1 <= Len(s)
                 /\ SubSeq(s, p, p + Len(sub) - 1) = sub

\* Python's  sub in s
In(sub, s) == \E p \in 1..(Len(s) + 1) : At(sub, s, p)

\* The literal lit (given in lower case) matches s at position p under
\* re.IGNORECASE.
LiteralAt(lit, s, p) ==
    /\ p + Len(lit) - 1 <= Len(s)
    /\ LowerChar(Ch(s, p)) = Ch(lit, 1)
    /\ Lower(SubSeq(s, p, p + Len(lit) - 1)) = lit

\* The positions where it does.
Occurrences(lit, s) == {p \in 1..Len(s) : LiteralAt(lit, s, p)}

\* Where a lazy  .*?  that starts at `from` and is followed by the literal
\* character c ends: the first c at or after `from` with no line break
\* before it ("." matches any character but "\n"); 0 when there is none.
RECURSIVE LazyTo(_, _, _)
LazyTo(s, c, from) ==
    IF from = 0 \/ from > Len(s) THEN 0
    ELSE IF Ch(s, from) = c THEN from
    ELSE IF Ch(s, from) = "\n" THEN 0
    ELSE LazyTo(s, c, from + 1)

SetMin(S) == CHOOSE x \in S : \A y \in S : x <= y

SetMax(S) == CHOOSE x \in S : \A y \in S : x >= y

(***************************************************************************)
(* convert_excel_formula_to_pandas  (src/euda-utils.py)                    *)
(***************************************************************************)

NoMatch == [found |-> FALSE]

\* re.search of  VLOOKUP\((.*?),(.*?),(.*?),.*?\)  with re.IGNORECASE: at an
\* occurrence p of "vlookup(" the three lazy groups end at the next three
\* commas and the match at the next ")" after them, all before a line break.
VlookupAt(s, p) ==
    LET a  == p + 8
        c1 == LazyTo(s, ",", a)
        c2 == IF c1 = 0 THEN 0 ELSE LazyTo(s, ",", c1 + 1)
        c3 == IF c2 = 0 THEN 0 ELSE LazyTo(s, ",", c2 + 1)
        e  == IF c3 = 0 THEN 0 ELSE LazyTo(s, ")", c3 + 1)
    IN  IF e = 0 THEN NoMatch
        ELSE [found |-> TRUE,
              groups |-> << SubSeq(s, a, c1 - 1), SubSeq(s, c1 + 1, c2 - 1),
                            SubSeq(s, c2 + 1, c3 - 1) >>]

\* re.search of  SUM\((.*?)\)
SumAt(s, p) ==
    LET a == p + 4
        e == LazyTo(s, ")", a)
    IN  IF e = 0 THEN NoMatch
        ELSE [found |-> TRUE, groups |-> << SubSeq(s, a, e - 1) >>]

\* re.search of  SUMIFS\((.*?),(.*?)\)
SumifsAt(s, p) ==
    LET a  == p + 7
        c1 == LazyTo(s, ",", a)
        e  == IF c1 = 0 THEN 0 ELSE LazyTo(s, ")", c1 + 1)
    IN  IF e = 0 THEN NoMatch
        ELSE [found |-> TRUE,
              groups |-> << SubSeq(s, a, c1 - 1), SubSeq(s, c1 + 1, e - 1) >>]

\* re.search of  IF\((.*?),(.*?),(.*?)\)
IfAt(s, p) ==
    LET a  == p + 3
        c1 == LazyTo(s, ",", a)
        c2 == IF c1 = 0 THEN 0 ELSE LazyTo(s, ",", c1 + 1)
        e  == IF c2 = 0 THEN 0 ELSE LazyTo(s, ")", c2 + 1)
    IN  IF e = 0 THEN NoMatch
        ELSE [found |-> TRUE,
              groups |-> << SubSeq(s, a, c1 - 1), SubSeq(s, c1 + 1, c2 - 1),
                            SubSeq(s, c2 + 1, e - 1) >>]

\* re.search: the match at the leftmost position where one exists.
vlookup_match(s) ==
    LET P == {p \in Occurrences("vlookup(", s) : VlookupAt(s, p).found}
    IN  IF P = {} THEN NoMatch ELSE VlookupAt(s, SetMin(P))

sum_match(s) ==
    LET P == {p \in Occurrences("sum(", s) : SumAt(s, p).found}
    IN  IF P = {} THEN NoMatch ELSE SumAt(s, SetMin(P))

sumifs_match(s) ==
    LET P == {p \in Occurrences("sumifs(", s) : SumifsAt(s, p).found}
    IN  IF P = {} THEN NoMatch ELSE SumifsAt(s, SetMin(P))

if_match(s) ==
    LET P == {p \in Occurrences("if(", s) : IfAt(s, p).found}
    IN  IF P = {} THEN NoMatch ELSE IfAt(s, SetMin(P))

EquivalentTo(f) == "# Equivalent to: " \o f \o "\n"

VlookupTemplate(m) ==
    "df.loc[df['key_column'] == " \o m.groups[1] \o ", df.columns["
        \o m.groups[3] \o "-1]].values[0]"

SumTemplate == "df[relevant_columns].sum()"

SumifsTemplate ==
    "df[df['condition_column'] == condition_value]['sum_column'].sum()"

IfTemplate(m) ==
    "np.where(" \o m.groups[1] \o ", " \o m.groups[2] \o ", "
        \o m.groups[3] \o ")"

\* (mutant) the fallback without its second line
NoEquivalent_NoNote(f) == "# No direct pandas equivalent found for: " \o f

NoEquivalent(f) ==
    "# No direct pandas equivalent found for: " \o f \o "\n"
        \o "# Will need custom implementation"

\* (mutant) the branching recogniser tried before the aggregate ones
Recognise_IfFirst(formula) ==
    IF vlookup_match(formula).found THEN "vlookup"
    ELSE IF if_match(formula).found THEN "if"
    ELSE IF sum_match(formula).found THEN "sum"
    ELSE IF sumifs_match(formula).found THEN "sumifs"
    ELSE "none"

\* The order in which the recognisers are tried.
Recognise(formula) ==
    IF vlookup_match(formula).found THEN "vlookup"
    ELSE IF sum_match(formula).found THEN "sum"
    ELSE IF sumifs_match(formula).found THEN "sumifs"
    ELSE IF if_match(formula).found THEN "if"
    ELSE "none"

convert_excel_formula_to_pandas(raw) ==
    LET formula == Strip(raw)
        kind    == Recognise(formula)
    IN  CASE kind = "vlookup" ->
               EquivalentTo(formula) \o VlookupTemplate(vlookup_match(formula))
          [] kind = "sum"     -> EquivalentTo(formula) \o SumTemplate
          [] kind = "sumifs"  -> EquivalentTo(formula) \o SumifsTemplate
          [] kind = "if"      ->
               EquivalentTo(formula) \o IfTemplate(if_match(formula))
          [] OTHER            -> NoEquivalent(formula)

(***************************************************************************)
(* extract_data_sources_from_vba  (src/euda-utils.py)                      *)
(***************************************************************************)

\* The end of a greedy run  [^x]+  that starts at `from`: the last position
\* before the next x or the end of the text.
RunEnd(s, x, from) ==
    LET stops == {i \in from..Len(s) : Ch(s, i) = x}
    IN  IF stops # {} THEN SetMin(stops) - 1
        ELSE IF from > Len(s) THEN from - 1 ELSE Len(s)

\* The end of a greedy run of white space  \s*  that starts at `from`.
RECURSIVE SpaceEnd(_, _)
SpaceEnd(s, from) ==
    IF from > Len(s) \/ Ch(s, from) \notin Whitespace THEN from - 1
    ELSE SpaceEnd(s, from + 1)

\* One attempt of a pattern at position p: [found, group, last], `last`
\* the position of the last character matched.
NoHit == [found |-> FALSE, group |-> "", last |-> 0]

\* key=([^;]+)   with the key given in lower case.
KeyValueAt(key, s, p) ==
    LET a == p + Len(key)
        e == RunEnd(s, ";", a)
    IN  IF LiteralAt(key, s, p) /\ e >= a
        THEN [found |-> TRUE, group |-> SubSeq(s, a, e), last |-> e]
        ELSE NoHit

\* "([^"]+)"  at position q, followed by the literal `close`.
QuotedAt(s, q, close) ==
    LET e == RunEnd(s, "\"", q + 1)
    IN  IF q <= Len(s) /\ Ch(s, q) = "\"" /\ e >= q + 1 /\ e + 1 <= Len(s)
           /\ At(close, s, e + 2)
        THEN [found |-> TRUE, group |-> SubSeq(s, q + 1, e),
              last |-> e + 1 + Len(close)]
        ELSE NoHit

\* Open\s+"([^"]+)"
OpenAt(s, p) ==
    LET a == p + 4
        w == SpaceEnd(s, a)
    IN  IF LiteralAt("open", s, p) /\ w >= a
        THEN QuotedAt(s, w + 1, "")
        ELSE NoHit

\* Workbooks.Open\s*\("([^"]+)"\)   (the unescaped "." matches any
\* character but a line break)
WorkbooksOpenAt(s, p) ==
    LET a == p + 14
        w == SpaceEnd(s, a)
    IN  IF LiteralAt("workbooks", s, p) /\ p + 9 <= Len(s)
           /\ Ch(s, p + 9) # "\n"
           /\ LiteralAt("open", s, p + 10)
           /\ w + 1 <= Len(s) /\ Ch(s, w + 1) = "("
        THEN QuotedAt(s, w + 2, ")")
        ELSE NoHit

\* GetOpenFilename\s*\("([^"]+)"
GetOpenFilenameAt(s, p) ==
    LET a == p + 15
        w == SpaceEnd(s, a)
    IN  IF LiteralAt("getopenfilename", s, p)
           /\ w + 1 <= Len(s) /\ Ch(s, w + 1) = "("
        THEN QuotedAt(s, w + 2, "")
        ELSE NoHit

connection_patterns ==
    << "provider=", "data source=", "server=", "database=", "dsn=" >>

\* re.findall of one pattern: the groups of the non-overlapping matches,
\* scanning from the left: the leftmost match at or after p, then those
\* after its last character.
RECURSIVE FindAllKey(_, _, _)
FindAllKey(key, s, p) ==
    LET P == {q \in p..Len(s) : KeyValueAt(key, s, q).found}
        h == KeyValueAt(key, s, SetMin(P))
    IN  IF P = {} THEN << >>
        ELSE << h.group >> \o FindAllKey(key, s, h.last + 1)

RECURSIVE FindAllOpen(_, _)
FindAllOpen(s, p) ==
    LET P == {q \in p..Len(s) : OpenAt(s, q).found}
        h == OpenAt(s, SetMin(P))
    IN  IF P = {} THEN << >>
        ELSE << h.group >> \o FindAllOpen(s, h.last + 1)

RECURSIVE FindAllWorkbooksOpen(_, _)
FindAllWorkbooksOpen(s, p) ==
    LET P == {q \in p..Len(s) : WorkbooksOpenAt(s, q).found}
        h == WorkbooksOpenAt(s, SetMin(P))
    IN  IF P = {} THEN << >>
        ELSE << h.group >> \o FindAllWorkbooksOpen(s, h.last + 1)

RECURSIVE FindAllGetOpenFilename(_, _)
FindAllGetOpenFilename(s, p) ==
    LET P == {q \in p..Len(s) : GetOpenFilenameAt(s, q).found}
        h == GetOpenFilenameAt(s, SetMin(P))
    IN  IF P = {} THEN << >>
        ELSE << h.group >> \o FindAllGetOpenFilename(s, h.last + 1)

\* data_sources after the two loops: every match of every pattern, in order,
\* repeats included.
AllMatches(vba_code) ==
    FindAllKey(connection_patterns[1], vba_code, 1)
        \o FindAllKey(connection_patterns[2], vba_code, 1)
        \o FindAllKey(connection_patterns[3], vba_code, 1)
        \o FindAllKey(connection_patterns[4], vba_code, 1)
        \o FindAllKey(connection_patterns[5], vba_code, 1)
        \o FindAllOpen(vba_code, 1)
        \o FindAllWorkbooksOpen(vba_code, 1)
        \o FindAllGetOpenFilename(vba_code, 1)

Range(q) == {q[i] : i \in 1..Len(q)}

\* list(set(data_sources)): some ordering of the distinct values.  Python
\* leaves the order of a set of strings unspecified (it varies from run to
\* run), so every ordering is an outcome.
RECURSIVE Orderings(_)
Orderings(S) ==
    IF S = {} THEN { << >> }
    ELSE UNION { { << x >> \o q : q \in Orderings(S \ {x}) } : x \in S }

\* (mutant) the matches returned as collected, repeats and all
Deduplicated_Kept(matches) == { matches }

Deduplicated(matches) == Orderings(Range(matches))

extract_data_sources_from_vba(vba_code) == Deduplicated(AllMatches(vba_code))

(***************************************************************************)
(* Dictionaries and sums                                                   *)
(***************************************************************************)

\* dict.get(key, default)
Get(d, key, default) == IF key \in DOMAIN d THEN d[key] ELSE default

\* d with d[key] = value
Put(d, key, value) ==
    [k \in DOMAIN d \cup {key} |-> IF k = key THEN value ELSE d[k]]

\* any(func in text for func in funcs)
AnyIn(funcs, text) == \E i \in 1..Len(funcs) : In(funcs[i], text)

\* sum(q) of a sequence of numbers
RECURSIVE Sum(_)
Sum(q) == IF Len(q) = 0 THEN 0 ELSE Head(q) + Sum(Tail(q))

(***************************************************************************)
(* ExcelAnalyzer._calculate_complexity_score and _get_complexity_rating    *)
(* (src/euda-remediation-app.py).  Scores are in hundredths.               *)
(***************************************************************************)

advanced_functions ==
    << "vlookup", "hlookup", "index", "match", "indirect",
       "offset", "sumifs", "countifs", "averageifs", "if" >>

IsComplexFormula(formula) == AnyIn(advanced_functions, Lower(formula.formula))

complex_formula_count(analysis) ==
    Cardinality({i \in 1..Len(analysis.formulas) :
                    IsComplexFormula(analysis.formulas[i])})

CodeLength(module) == Len(module.code)

vba_code_length(analysis) ==
    Sum([i \in 1..Len(analysis.vba_modules) |-> CodeLength(analysis.vba_modules[i])])

\* What one module adds to vba_complexity.
ModuleComplexity(module) ==
    LET code == Lower(module.code)
    IN  (IF In("createobject", code) \/ In("getobject", code) THEN 5 ELSE 0)
        + (IF In("adodb", code) THEN 10 ELSE 0)
        + (IF In("sql", code) THEN 10 ELSE 0)

vba_complexity(analysis) ==
    Sum([i \in 1..Len(analysis.vba_modules) |->
            ModuleComplexity(analysis.vba_modules[i])])

\* The seven capped contributions, in the order the code adds them.
SheetPoints(analysis)      == Min(analysis.sheet_count * 500, 3000)
FormulaPoints(analysis)    == Min(analysis.formula_count * 50, 3000)
VbaPoints(analysis)        == Min(analysis.vba_module_count * 1000, 4000)
\* (mutant) the complex-formula points without their cap of 20
ComplexPoints_Uncapped(analysis) == complex_formula_count(analysis) * 200

ComplexPoints(analysis)    == Min(complex_formula_count(analysis) * 200, 2000)
\* (mutant) the connection points taken off the score instead of added
ConnectionPoints_Subtracted(analysis) ==
    0 - Min(analysis.connection_count * 1500, 3000)

ConnectionPoints(analysis) == Min(analysis.connection_count * 1500, 3000)
LengthPoints(analysis)     == Min(vba_code_length(analysis), 2000)
RiskPoints(analysis)       == Min(vba_complexity(analysis) * 100, 3000)

UncappedScore(analysis) ==
    SheetPoints(analysis) + FormulaPoints(analysis) + VbaPoints(analysis)
        + ComplexPoints(analysis) + ConnectionPoints(analysis)
        + LengthPoints(analysis) + RiskPoints(analysis)

\* (mutant) the sum returned without the final cap
_calculate_complexity_score_NoCap(analysis) == UncappedScore(analysis)

_calculate_complexity_score(analysis) == Min(UncappedScore(analysis), 10000)

\* (mutant) the boundaries given to the lower band
_get_complexity_rating_Inclusive(score) ==
    IF score <= 2000 THEN "Simple"
    ELSE IF score <= 4000 THEN "Basic"
    ELSE IF score <= 6000 THEN "Moderate"
    ELSE IF score <= 8000 THEN "Complex"
    ELSE "Very Complex"

_get_complexity_rating(score) ==
    IF score < 2000 THEN "Simple"
    ELSE IF score < 4000 THEN "Basic"
    ELSE IF score < 6000 THEN "Moderate"
    ELSE IF score < 8000 THEN "Complex"
    ELSE "Very Complex"

(***************************************************************************)
(* estimate_remediation_difficulty  (src/euda-utils.py).  The difficulty   *)
(* score is in two-hundredths: complexity_score * 0.5, in two-hundredths,  *)
(* is the complexity score in hundredths.                                  *)
(***************************************************************************)

difficulty_functions == << "vlookup", "index", "match", "indirect", "offset" >>

IsAdvancedFormula(formula) ==
    AnyIn(difficulty_functions, Lower(Get(formula, "formula", "")))

advanced_function_count(analysis) ==
    LET formulas == Get(analysis, "formulas", << >>)
    IN  Cardinality({i \in 1..Len(formulas) : IsAdvancedFormula(formulas[i])})

\* analysis.get('complexity_score', 50) * 0.5
ComplexityShare(analysis) == Get(analysis, "complexity_score", 5000)

VbaShare(analysis) ==
    LET vba_module_count == Get(analysis, "vba_module_count", 0)
    IN  IF vba_module_count > 0 THEN Min(vba_module_count * 5, 20) * 200 ELSE 0

ConnectionShare(analysis) ==
    LET connection_count == Get(analysis, "connection_count", 0)
    IN  IF connection_count > 0 THEN Min(connection_count * 5, 15) * 200 ELSE 0

\* (mutant) the advanced-function points without their cap of 15
AdvancedShare_Uncapped(analysis) == advanced_function_count(analysis) * 200

AdvancedShare(analysis) ==
    LET n == advanced_function_count(analysis)
    IN  IF n > 0 THEN Min(n, 15) * 200 ELSE 0

\* (mutant) the macro reason given for any count, zero included
VbaReason_NonNegative(analysis) ==
    LET vba_module_count == Get(analysis, "vba_module_count", 0)
    IN  IF vba_module_count >= 0
        THEN << "Contains " \o ToString(vba_module_count) \o " VBA modules" >>
        ELSE << >>

VbaReason(analysis) ==
    LET vba_module_count == Get(analysis, "vba_module_count", 0)
    IN  IF vba_module_count > 0
        THEN << "Contains " \o ToString(vba_module_count) \o " VBA modules" >>
        ELSE << >>

ConnectionReason(analysis) ==
    LET connection_count == Get(analysis, "connection_count", 0)
    IN  IF connection_count > 0
        THEN << "Has " \o ToString(connection_count)
                    \o " external data connections" >>
        ELSE << >>

AdvancedReason(analysis) ==
    LET n == advanced_function_count(analysis)
    IN  IF n > 0
        THEN << "Uses " \o ToString(n) \o " advanced Excel functions" >>
        ELSE << >>

DifficultyRating(score) ==
    IF score < 6000 THEN "Easy"
    ELSE IF score < 12000 THEN "Moderate"
    ELSE IF score < 16000 THEN "Difficult"
    ELSE "Very Difficult"

\* (mutant) the connection reason appended before the macro reason
DifficultyReasons_ConnectionsFirst(analysis) ==
    ConnectionReason(analysis) \o VbaReason(analysis) \o AdvancedReason(analysis)

DifficultyReasons(analysis) ==
    VbaReason(analysis) \o ConnectionReason(analysis) \o AdvancedReason(analysis)

estimate_remediation_difficulty(analysis) ==
    LET score == ComplexityShare(analysis) + VbaShare(analysis)
                     + ConnectionShare(analysis) + AdvancedShare(analysis)
    IN  [score   |-> score,
         rating  |-> DifficultyRating(score),
         reasons |-> DifficultyReasons(analysis)]

(***************************************************************************)
(* create_data_model_recommendation  (src/euda-utils.py)                   *)
(***************************************************************************)

\* str.replace(old, ""): the occurrences of old removed, left to right.
RECURSIVE Remove(_, _)
Remove(s, old) ==
    IF Len(s) = 0 THEN ""
    ELSE IF At(old, s, 1) THEN Remove(SubSeq(s, Len(old) + 1, Len(s)), old)
    ELSE Ch(s, 1) \o Remove(SubSeq(s, 2, Len(s)), old)

\* str.endswith
EndsWith(s, suffix) ==
    Len(suffix) <= Len(s) /\ SubSeq(s, Len(s) - Len(suffix) + 1, Len(s)) = suffix

\* q[:n]
Prefix(q, n) == SubSeq(q, 1, Min(n, Len(q)))

suffixes == << "data", "table", "list", "master", "info" >>

IsEntitySheet(sheet) == AnyIn(suffixes, Lower(sheet))

EntityName(sheet) == Strip(Remove(Remove(Remove(sheet, "Data"), "Table"), "List"))

Entity(sheet) == [name |-> EntityName(sheet), source |-> "Sheet: " \o sheet]

RECURSIVE Entities(_)
Entities(sheets) ==
    IF Len(sheets) = 0 THEN << >>
    ELSE (IF IsEntitySheet(Head(sheets)) THEN << Entity(Head(sheets)) >>
          ELSE << >>) \o Entities(Tail(sheets))

\* 'vlookup' in t or 'index' in t and 'match' in t
IsLookup(formula_text) ==
    In("vlookup", formula_text)
        \/ (In("index", formula_text) /\ In("match", formula_text))

\* The inner loop: one relationship for each sheet, in order, that is not
\* the source sheet and whose name occurs in the formula text.
RECURSIVE Links(_, _, _)
Links(source_sheet, formula_text, sheets) ==
    IF Len(sheets) = 0 THEN << >>
    ELSE (IF Head(sheets) # source_sheet /\ In(Head(sheets), formula_text)
          THEN << [from |-> source_sheet, to |-> Head(sheets), type |-> "lookup"] >>
          ELSE << >>) \o Links(source_sheet, formula_text, Tail(sheets))

\* The relationships one formula appends.
RelationshipsOf(formula, sheets, entities) ==
    LET formula_text == Lower(Get(formula, "formula", ""))
        source_sheet == Get(formula, "sheet", "")
    IN  IF IsLookup(formula_text) /\ source_sheet # ""
           /\ \E i \in 1..Len(entities) : EndsWith(entities[i].source, source_sheet)
        THEN Links(source_sheet, formula_text, sheets)
        ELSE << >>

RECURSIVE Relationships(_, _, _)
Relationships(formulas, sheets, entities) ==
    IF Len(formulas) = 0 THEN << >>
    ELSE RelationshipsOf(Head(formulas), sheets, entities)
             \o Relationships(Tail(formulas), sheets, entities)

Recommendation ==
    "Based on the EUDA analysis, consider creating a normalized data model with the entities listed above. Use SQLAlchemy ORM to model these entities and their relationships in Python."

create_data_model_recommendation(analysis) ==
    LET sheets   == Get(analysis, "sheet_names", << >>)
        entities == Entities(sheets)
    IN  [entities       |-> entities,
         relationships  |-> Relationships(Prefix(Get(analysis, "formulas", << >>), 50),
                                          sheets, entities),
         recommendation |-> Recommendation]

(***************************************************************************)
(* Inputs.  The bounds are the largest counts a workbook is given; each    *)
(* lies above the count at which the corresponding contribution is capped. *)
(***************************************************************************)

MaxSheets      == 7
MaxVlookups    == 16
MaxPlain       == 50
MaxModules     == 5
MaxRisky       == 3
MaxConnections == 3
MaxPadding     == 1900
MaxFragments   == 2
MaxNames       == 2
MaxRuns        == 2

\* --- formulas handed to the classifier: two calls, joined and wrapped ---

Calls ==
    { "VLOOKUP(A1,B:C,2,FALSE)", "vlookup(A1,B:C", "SUM(A1:A3)", "Sum(",
      "SUMIFS(A:A,B:B,1)", "IF(A1>0,1,2)", "If(A1,1", "A1*2", "", ")" }

Joins  == { "", "+", "\n", "," }
Leads  == { "=", " =" }
Trails == { "", " \n" }

Formulas ==
    { l \o c1 \o j \o c2 \o t :
        l \in Leads, c1 \in Calls, j \in Joins, c2 \in Calls, t \in Trails }
    \cup { "", " \t " }

\* --- macro text handed to the extractor: up to MaxFragments fragments ---

Fragments ==
    { "Provider=SQLOLEDB;Data Source=myserver;", "server=db1;DATABASE=sales",
      "Open \"a.txt\" For Input", "Workbooks.Open(\"b.xlsx\")",
      "GetOpenFilename(\"*.xls\"", "x = 1" }

Separators == { "", "\n" }

RECURSIVE MacroTexts(_)
MacroTexts(n) ==
    IF n = 0 THEN { "" }
    ELSE { "" } \cup { f \o sep \o t :
                        f \in Fragments, sep \in Separators, t \in MacroTexts(n - 1) }

\* --- the workbooks the inspector reads ---

SheetPool ==
    << "CustomerData", "price_list", "Config", "OrderTable",
       "SalesMaster", "StaffInfo", "Summary" >>

SheetName(k) == IF k <= Len(SheetPool) THEN SheetPool[k] ELSE "Sheet" \o ToString(k)

VlookupFormula == "=VLOOKUP(A2,price_list!A:B,2,FALSE)"
IfFormula      == "=IF(A1>0,1,0)"
PlainFormula   == "=A1+B1"

\* n copies of the text s
RECURSIVE Repeat(_, _)
Repeat(s, n) ==
    IF n <= 0 THEN ""
    ELSE IF n = 1 THEN s
    ELSE Repeat(s, n \div 2) \o Repeat(s, n - n \div 2)

\* Module sources, all of one length.
PlainCode ==
    "Sub Main()" \o "\n" \o "  Range(\"A1\").Value = 1" \o "\n" \o "End Sub '......"

RiskyCodes ==
    << "Set c = CreateObject(\"ADODB.Connection\") ' SQL....",
       "Set x = GetObject(, \"Excel.Application\") '........",
       "q = \"select * from orders\" ' run the sql query...." >>

CodeUnit == Len(PlainCode)

\* A workbook: how many sheets, formulas of each kind, macro modules (how
\* many of them risky, how much padding after the last) and connections
\* it holds.  The light ones combine small counts freely; the heavy ones
\* carry many plain formulas or a long macro source.
LightShapes ==
    [ sheets      : {0, 4, MaxSheets},
      ifs         : {0, 1},
      plains      : {0, 1},
      vlookups    : {0, MaxVlookups},
      modules     : {0, 1, MaxModules},
      risky       : {0, 1, MaxRisky},
      padding     : {0, (MaxModules - 1) * CodeUnit},
      connections : {0, MaxConnections} ]

FormulaHeavyShapes ==
    [ sheets      : {MaxSheets},
      ifs         : {0, 1},
      plains      : {MaxPlain},
      vlookups    : {0, MaxVlookups},
      modules     : {0},
      risky       : {0},
      padding     : {0},
      connections : {0, MaxConnections} ]

MacroHeavyShapes ==
    [ sheets      : {0, MaxSheets},
      ifs         : {0},
      plains      : {0},
      vlookups    : {0},
      modules     : {1, MaxModules},
      risky       : {0, 1, MaxRisky},
      padding     : {MaxPadding},
      connections : {0, MaxConnections} ]

\* Formulas live on sheets; risky modules are modules; padding is source
\* of some module.
Consistent(w) ==
    /\ w.sheets = 0 => w.ifs + w.plains + w.vlookups = 0
    /\ w.risky <= w.modules
    /\ w.modules = 0 => w.padding = 0

Workbooks ==
    {w \in LightShapes \cup FormulaHeavyShapes \cup MacroHeavyShapes : Consistent(w)}

\* What the inspector reads from workbook w: the If formulas, then the
\* plain ones, then the lookups, each on the first sheet.
SheetNamesOf(w) == [k \in 1..w.sheets |-> SheetName(k)]

FormulasOf(w) ==
    [k \in 1..(w.ifs + w.plains + w.vlookups) |->
        [sheet   |-> SheetName(1),
         address |-> "$A$" \o ToString(k),
         formula |-> IF k <= w.ifs THEN IfFormula
                     ELSE IF k <= w.ifs + w.plains THEN PlainFormula
                     ELSE VlookupFormula]]

ModulesOf(w) ==
    [k \in 1..w.modules |->
        [name |-> "Module" \o ToString(k),
         type |-> 1,
         code |-> (IF k <= w.risky THEN RiskyCodes[((k - 1) % 3) + 1]
                   ELSE PlainCode)
                  \o (IF k = w.modules THEN Repeat("'", w.padding) ELSE "")]]

ConnectionsOf(w) ==
    [k \in 1..w.connections |->
        [name |-> "Connection" \o ToString(k),
         description |-> "",
         connection_string |-> "Provider=SQLOLEDB;Data Source=myserver;"]]

FilePath == "C:\\euda\\book.xlsm"

\* --- dictionaries handed to the utilities directly ---

NamePool ==
    { "CustomerData", "OrderTable", "Config", "SalesMaster", "price_list",
      "StaffInfo", "DataList", " Data" }

RECURSIVE NameLists(_)
NameLists(n) ==
    IF n = 0 THEN { << >> }
    ELSE { << >> } \cup { << name >> \o rest :
                            name \in NamePool, rest \in NameLists(n - 1) }

\* The analysis of a workbook with 2 macro modules, no connection and 3
\* lookups, without a complexity score.
ExampleDict ==
    [vba_module_count |-> 2, connection_count |-> 0,
     formulas |-> [k \in 1..3 |-> [sheet |-> "Orders", address |-> "$B$2",
                                   formula |-> VlookupFormula]]]

ExampleSheets == [sheet_names |-> << "CustomerData", "OrderTable", "Config" >>]

\* Analyses with one formula on one of their sheets: the sheet lists, and
\* the formula texts (lookups naming a sheet in its own or another letter
\* case, an index without and with a match, a sum).
RelationSheets ==
    { << "CustomerData", "OrderTable" >>,
      << "CustomerData", "price_list", "Config" >>,
      << "Q1", "ListQ1", "rates_table" >>,
      << "Summary", "price_list" >> }

RelationTexts ==
    { "=VLOOKUP(A2,OrderTable!A:B,2,FALSE)",
      "=VLOOKUP(A2,price_list!A:B,2,FALSE)",
      "=vlookup(A2,RATES_TABLE!A:B,2,0)",
      "=INDEX(rates_table!B:B,MATCH(A2,rates_table!A:A,0))",
      "=INDEX(price_list!B:B,2)",
      "=SUM(price_list!B:B)" }

RelationDicts ==
    UNION { { [sheet_names |-> sheets,
               formulas |-> << [sheet |-> sheets[i], address |-> "$B$2",
                                formula |-> text] >>] :
                 i \in 1..Len(sheets), text \in RelationTexts } :
            sheets \in RelationSheets }

Dicts == { [sheet_names |-> names] : names \in NameLists(MaxNames) }
             \cup { ExampleDict, ExampleSheets } \cup RelationDicts

\* --- scores handed to the rating function ---

Scores == 0..10000

(***************************************************************************)
(* State                                                                   *)
(***************************************************************************)

VARIABLES
    job,           \* the entry point this run exercises
    returned,      \* the functions that have returned
    formula,       \* convert_excel_formula_to_pandas: its argument
    converted,     \*   and its result
    vba_code,      \* extract_data_sources_from_vba: its argument
    data_sources,  \*   and its result
    workbook,      \* the workbook file the analyzer opens
    analysis,      \* the analysis dict
    previous,      \* the workbook as it was analyzed before, and its score
    difficulty,    \* estimate_remediation_difficulty: its result
    data_model,    \* create_data_model_recommendation: its result
    score,         \* _get_complexity_rating: its argument
    rating,        \*   and its result
    thread,        \* the AnalyzeThread last started, its analyzer and Excel
    db,            \* the PostgreSQL database: committed rows, connections
    window,        \* the main window: progress dialogs, queued signals
    embedded       \* the texts handed to the embedding service

app == << thread, db, window, embedded >>

vars == << job, returned, formula, converted, vba_code, data_sources, workbook,
           analysis, previous, difficulty, data_model, score, rating, app >>

NoDict     == << >>
NoWorkbook == [sheets |-> 0, ifs |-> 0, plains |-> 0, vlookups |-> 0,
               modules |-> 0, risky |-> 0, padding |-> 0, connections |-> 0]

\* --- the application: the analysis thread, the database, the window ---

\* An AnalyzeThread before any is started.  excel_app is the analyzer's
\* field, excel the Excel process it started, book the workbook file.
NoThread ==
    [pc |-> "idle", run |-> 0, file |-> NoWorkbook,
     excel_app |-> "None", excel |-> "not started", book |-> "unopened",
     analysis |-> NoDict, summary |-> "", euda_id |-> 0, finished_signal |-> 0,
     update_signal |-> ""]

\* The database: the committed rows of the two tables, the next value of
\* the eudas id sequence, and whether some operation has returned without
\* closing the connection it opened.
EmptyDatabase ==
    [eudas |-> << >>, euda_embeddings |-> << >>, serial |-> 1, unclosed |-> FALSE]

\* No code: generated_code before any generation, and no file written.
NoCode == [euda |-> 0, text |-> ""]

\* The window: one progress dialog for each analysis started, the
\* finished signals queued for the window's thread, the EUDA shown (its
\* id), the EUDAs listed, the EUDA a running GenerateCodeThread was given
\* (0 when none runs), the code held and the code last written to a file.
NewWindow ==
    [dialogs |-> << >>, queue |-> << >>, current_euda |-> 0, listed |-> << >>,
     code_thread |-> 0, generated_code |-> NoCode, saved |-> NoCode]

Init ==
    /\ returned = {}
    /\ thread = NoThread /\ db = EmptyDatabase /\ window = NewWindow
    /\ embedded = {}
    /\ converted = "" /\ data_sources = << >> /\ rating = ""
    /\ previous = NoDict /\ difficulty = NoDict /\ data_model = NoDict
    /\ \/ /\ job = "classify"
          /\ formula \in Formulas
          /\ vba_code = "" /\ workbook = NoWorkbook /\ analysis = NoDict /\ score = 0
       \/ /\ job = "extract"
          /\ vba_code \in MacroTexts(MaxFragments)
          /\ formula = "" /\ workbook = NoWorkbook /\ analysis = NoDict /\ score = 0
       \/ /\ job \in {"workbook", "edit"}
          /\ workbook \in Workbooks
          /\ formula = "" /\ vba_code = "" /\ analysis = NoDict /\ score = 0
       \/ /\ job = "dict"
          /\ analysis \in Dicts
          /\ formula = "" /\ vba_code = "" /\ workbook = NoWorkbook /\ score = 0
       \/ /\ job = "rate"
          /\ score \in Scores
          /\ formula = "" /\ vba_code = "" /\ workbook = NoWorkbook /\ analysis = NoDict
       \/ /\ job = "window"
          /\ formula = "" /\ vba_code = "" /\ workbook = NoWorkbook /\ analysis = NoDict
          /\ score = 0

(***************************************************************************)
(* Operations                                                              *)
(***************************************************************************)

ConvertExcelFormulaToPandas ==
    /\ job = "classify" /\ "convert_excel_formula_to_pandas" \notin returned
    /\ converted' = convert_excel_formula_to_pandas(formula)
    /\ returned' = returned \cup {"convert_excel_formula_to_pandas"}
    /\ UNCHANGED << job, formula, vba_code, data_sources, workbook, analysis,
                    previous, difficulty, data_model, score, rating >>
    /\ UNCHANGED app

ExtractDataSourcesFromVba ==
    /\ job = "extract" /\ "extract_data_sources_from_vba" \notin returned
    /\ data_sources' \in extract_data_sources_from_vba(vba_code)
    /\ returned' = returned \cup {"extract_data_sources_from_vba"}
    /\ UNCHANGED << job, formula, converted, vba_code, workbook, analysis,
                    previous, difficulty, data_model, score, rating >>
    /\ UNCHANGED app

GetComplexityRating ==
    /\ job = "rate" /\ "_get_complexity_rating" \notin returned
    /\ rating' = _get_complexity_rating(score)
    /\ returned' = returned \cup {"_get_complexity_rating"}
    /\ UNCHANGED << job, formula, converted, vba_code, data_sources, workbook,
                    analysis, previous, difficulty, data_model, score >>
    /\ UNCHANGED app

\* analyze_excel_file, from the analysis dict on: the counts are the
\* lengths of what was read, then the score and the rating are added.
Analyse(w) ==
    LET sheet_names == SheetNamesOf(w)
        formulas    == FormulasOf(w)
        vba_modules == ModulesOf(w)
        connections == ConnectionsOf(w)
        read == [file_path        |-> FilePath,
                 sheet_count      |-> Len(sheet_names),
                 sheet_names      |-> sheet_names,
                 formula_count    |-> Len(formulas),
                 formulas         |-> formulas,
                 vba_module_count |-> Len(vba_modules),
                 vba_modules      |-> vba_modules,
                 connection_count |-> Len(connections),
                 connections      |-> connections]
        complexity_score == _calculate_complexity_score(read)
    IN  Put(Put(read, "complexity_score", complexity_score),
            "complexity_rating", _get_complexity_rating(complexity_score))

AnalyzeExcelFile ==
    /\ job \in {"workbook", "edit"} /\ "analyze_excel_file" \notin returned
    /\ analysis' = Analyse(workbook)
    /\ returned' = returned \cup {"analyze_excel_file"}
    /\ UNCHANGED << job, formula, converted, vba_code, data_sources, workbook,
                    previous, difficulty, data_model, score, rating >>
    /\ UNCHANGED app

\* The seven inputs of the score, as the scorer counts them in an analysis.
RiskyModules(a) ==
    Cardinality({i \in 1..Len(a.vba_modules) : ModuleComplexity(a.vba_modules[i]) > 0})

Factors(a) ==
    << a.sheet_count, a.formula_count, a.vba_module_count, a.connection_count,
       complex_formula_count(a), vba_code_length(a), RiskyModules(a) >>

\* The same seven, from the shape of a workbook.
ShapeFactors(w) ==
    << w.sheets, w.ifs + w.plains + w.vlookups, w.modules, w.connections,
       w.ifs + w.vlookups, w.modules * CodeUnit + w.padding, w.risky >>

\* g is f with exactly one input larger.
GrowsOne(f, g) ==
    \E i \in 1..7 : f[i] < g[i] /\ \A k \in (1..7) \ {i} : f[k] = g[k]

\* The workbook was edited so that one input of the score grew, and is
\* analyzed again (one edit in a run).
AnalyzeEditedWorkbook ==
    /\ job = "edit" /\ "analyze_excel_file" \in returned
    /\ DOMAIN previous = {}
    /\ \E w \in Workbooks :
          /\ GrowsOne(ShapeFactors(workbook), ShapeFactors(w))
          /\ workbook' = w
          /\ analysis' = Analyse(w)
    /\ previous' = [workbook |-> workbook, score |-> analysis.complexity_score]
    /\ UNCHANGED << job, returned, formula, converted, vba_code, data_sources,
                    difficulty, data_model, score, rating >>
    /\ UNCHANGED app

EstimateRemediationDifficulty ==
    /\ \/ job = "dict"
       \/ job = "workbook" /\ "analyze_excel_file" \in returned
    /\ "estimate_remediation_difficulty" \notin returned
    /\ difficulty' = estimate_remediation_difficulty(analysis)
    /\ returned' = returned \cup {"estimate_remediation_difficulty"}
    /\ UNCHANGED << job, formula, converted, vba_code, data_sources, workbook,
                    analysis, previous, data_model, score, rating >>
    /\ UNCHANGED app

CreateDataModelRecommendation ==
    /\ \/ job = "dict"
       \/ job = "workbook" /\ "analyze_excel_file" \in returned
    /\ "create_data_model_recommendation" \notin returned
    /\ data_model' = create_data_model_recommendation(analysis)
    /\ returned' = returned \cup {"create_data_model_recommendation"}
    /\ UNCHANGED << job, formula, converted, vba_code, data_sources, workbook,
                    analysis, previous, difficulty, score, rating >>
    /\ UNCHANGED app

(***************************************************************************)
(* The application (src/euda-remediation-app.py, src/unnamed/part_000):    *)
(* MainWindow.analyze_new_euda starts an AnalyzeThread; its run calls the  *)
(* database, the analyzer (Excel), the language model and the database     *)
(* again, each of which may fail.  None stands as 0 for an id and as the   *)
(* empty tuple for a dict.                                                 *)
(***************************************************************************)

\* The files the user picks: a workbook of formulas without macros.
ThreadWorkbooks ==
    { [sheets |-> 4, ifs |-> 1, plains |-> 1, vlookups |-> 0, modules |-> 0,
       risky |-> 0, padding |-> 0, connections |-> 1] }

\* What the language model may answer, and what analyze_euda returns when
\* the call raises.
LlmReplies == { "", "Tracks orders per customer; a candidate for migration." }
ErrorSummary == "Error analyzing EUDA: " \o "Connection error."

\* What analyze_excel_file returns when a step raises.
ErrorAnalysis == [error |-> "Call was rejected by callee."]

\* os.path.basename of a Windows path
basename(path) ==
    LET seps == {i \in 1..Len(path) : Ch(path, i) = "\\"}
    IN  IF seps = {} THEN path ELSE SubSeq(path, SetMax(seps) + 1, Len(path))

\* (mutant) the analyzer's field cleared without quitting Excel
close_excel_NoQuit(t) == [t EXCEPT !.excel_app = "None"]

\* ExcelAnalyzer.close_excel.  Excel was started with DisplayAlerts off:
\* Quit closes a workbook still open without saving it.
close_excel(t) ==
    IF t.excel_app # "None"
    THEN [t EXCEPT !.excel = "quit", !.excel_app = "None",
                   !.book = IF @ = "open" THEN "closed unsaved" ELSE @]
    ELSE t

\* ExcelAnalyzer.analyze_excel_file on the thread's file, by where it
\* fails: at Dispatch (no Excel started), at Workbooks.Open, while reading
\* the open workbook (the handler closes it), while reading it with the
\* handler's Close raising in its turn (nothing is returned, the exception
\* reaches the caller), nowhere but with the macro project inaccessible
\* (no modules read), or nowhere.
ExcelOutcomes == { "dispatch", "open", "read", "close", "vba denied", "ok" }

analyze_excel_file(t, outcome) ==
    LET started == [t EXCEPT !.excel_app = "Excel.Application", !.excel = "running"]
        closed  == [started EXCEPT !.book = "closed unsaved"]
        nomacro == [t.file EXCEPT !.modules = 0, !.risky = 0, !.padding = 0]
    IN  CASE outcome = "dispatch"   -> [t EXCEPT !.analysis = ErrorAnalysis]
          [] outcome = "open"       -> [started EXCEPT !.analysis = ErrorAnalysis]
          [] outcome = "read"       -> [closed EXCEPT !.analysis = ErrorAnalysis]
          [] outcome = "close"      -> [started EXCEPT !.book = "open"]
          [] outcome = "vba denied" -> [closed EXCEPT !.analysis = Analyse(nomacro)]
          [] OTHER                  -> [closed EXCEPT !.analysis = Analyse(t.file)]

\* LLMService.analyze_euda: the model's text, or the error text when the
\* call raised.
analyze_euda(reply, raised) == IF raised THEN ErrorSummary ELSE reply

\* (mutant) a failure after the first INSERT leaves the eudas row committed
RowsAfter_Autocommit(rows, row, fail) ==
    IF fail \in {"none", "embedding insert", "commit"} THEN Append(rows, row)
    ELSE rows

\* The rows of a table after a call that inserted row: there only when the
\* commit was reached and succeeded.
RowsAfter(rows, row, fail) == IF fail = "none" THEN Append(rows, row) ELSE rows

\* VectorDatabase.store_euda_analysis, by the statement that raises:
\* connect, the INSERT into eudas, the INSERT into euda_embeddings, the
\* commit, or none.  `vector` is what get_embedding returns (the model's
\* vector, or the zero vector when its call raised).  The result: the
\* database, the id returned, the texts handed to get_embedding.
StoreFailures == { "connect", "insert", "embedding insert", "commit", "none" }

store_euda_analysis(d, a, summary, fail, vector) ==
    LET euda_id == d.serial
        row == [id |-> euda_id, file_path |-> a.file_path,
                file_name |-> basename(a.file_path), analysis |-> a,
                complexity_score |-> a.complexity_score,
                complexity_rating |-> a.complexity_rating, summary |-> summary]
        emb == [euda_id |-> euda_id, embedding_type |-> "summary",
                embedding |-> vector]
        inserted == fail \notin {"connect", "insert"}
    IN  [db |-> [d EXCEPT
                   !.eudas = RowsAfter(@, row, fail),
                   !.euda_embeddings =
                       IF summary # "" THEN RowsAfter(@, emb, fail) ELSE @,
                   !.serial = IF inserted THEN @ + 1 ELSE @,
                   !.unclosed = @ \/ fail \notin {"connect", "none"}],
         euda_id |-> IF fail = "none" THEN euda_id ELSE 0,
         texts |-> IF inserted /\ summary # "" THEN {summary} ELSE {}]

\* A read (get_euda_by_id, get_all_eudas) or initialize_database, by where
\* it fails: at connect, at a statement, or nowhere.
ReadFailures == { "connect", "execute", "none" }

Connected(d, fail) ==
    [d EXCEPT !.unclosed = @ \/ fail = "execute"]

\* VectorDatabase.get_euda_by_id: the row's dict, or None.
get_euda_by_id(d, euda_id, fail) ==
    LET found == {i \in 1..Len(d.eudas) : d.eudas[i].id = euda_id}
    IN  IF fail = "none" /\ found # {} THEN d.eudas[SetMin(found)] ELSE NoDict

\* VectorDatabase.get_all_eudas: the ids of the rows, the newest first, or
\* the empty list when the read failed.
get_all_eudas(d, fail) ==
    IF fail = "none"
    THEN [i \in 1..Len(d.eudas) |-> d.eudas[Len(d.eudas) + 1 - i].id]
    ELSE << >>

\* MainWindow.load_euda_details: when the row is read, it becomes the EUDA
\* shown and the code held is dropped; when it is not, nothing changes.
load_euda_details(w, d, euda_id, fail) ==
    IF DOMAIN get_euda_by_id(d, euda_id, fail) # {}
    THEN [w EXCEPT !.current_euda = euda_id, !.generated_code = NoCode]
    ELSE w

\* LLMService.generate_python_code for the EUDA with this id: the text
\* returned for it (the model's code, or the error text when the call
\* raised: the window treats both alike).
generate_python_code(euda_id) == [euda |-> euda_id, text |-> "import pandas as pd"]

\* A progress dialog is shown.  Both kinds are QMessageBox dialogs with
\* the window as parent, which are modal: until the dialog is accepted the
\* window takes no click.
ProgressDialogShown ==
    \/ window.code_thread # 0
    \/ \E i \in DOMAIN window.dialogs : window.dialogs[i] = "shown"

\* MainWindow.analyze_new_euda with a file chosen: a progress dialog
\* without buttons is shown and a new thread started.  The window's event
\* loop handles the events in the order they were posted: a signal the
\* ended thread emitted comes before the user's next choice.
AnalyzeNewEuda ==
    /\ job = "window" /\ thread.pc \in {"idle", "ended"}
    /\ window.queue = << >>
    /\ ~ProgressDialogShown
    /\ thread.run < MaxRuns
    /\ \E file \in ThreadWorkbooks :
          thread' = [NoThread EXCEPT !.pc = "initialize_database",
                                     !.run = thread.run + 1, !.file = file]
    /\ window' = [window EXCEPT !.dialogs = Append(@, "shown")]
    /\ UNCHANGED << job, returned, formula, converted, vba_code, data_sources,
                    workbook, analysis, previous, difficulty, data_model, score,
                    rating, db, embedded >>

\* AnalyzeThread.run, lines 628-629
RunInitializeDatabase ==
    /\ thread.pc = "initialize_database"
    /\ \E fail \in ReadFailures : db' = Connected(db, fail)
    /\ thread' = [thread EXCEPT !.pc = "analyze_excel_file",
                                !.update_signal = "Initializing database..."]
    /\ UNCHANGED << job, returned, formula, converted, vba_code, data_sources,
                    workbook, analysis, previous, difficulty, data_model, score,
                    rating, window, embedded >>

\* AnalyzeThread.run, lines 631-636 and 653-654: an error analysis ends
\* the run, an exception is reported by the except clause (both by way of
\* the finally clause).
RunAnalyzeExcelFile ==
    /\ thread.pc = "analyze_excel_file"
    /\ \E outcome \in ExcelOutcomes :
          LET t == analyze_excel_file(thread, outcome)
          IN  thread' = IF DOMAIN t.analysis = {}
                        THEN [t EXCEPT !.pc = "close_excel",
                                       !.update_signal = "Error: " \o ErrorAnalysis.error]
                        ELSE IF "error" \in DOMAIN t.analysis
                        THEN [t EXCEPT !.pc = "close_excel",
                                       !.update_signal = "Error: " \o t.analysis.error]
                        ELSE [t EXCEPT !.pc = "analyze_euda",
                                       !.update_signal = "Analyzing Excel file..."]
    /\ UNCHANGED << job, returned, formula, converted, vba_code, data_sources,
                    workbook, analysis, previous, difficulty, data_model, score,
                    rating, db, window, embedded >>

\* AnalyzeThread.run, lines 638-639
RunAnalyzeEuda ==
    /\ thread.pc = "analyze_euda"
    /\ \E reply \in LlmReplies, raised \in BOOLEAN :
          thread' = [thread EXCEPT !.summary = analyze_euda(reply, raised),
                                   !.pc = "store_euda_analysis",
                                   !.update_signal = "Getting LLM analysis..."]
    /\ UNCHANGED << job, returned, formula, converted, vba_code, data_sources,
                    workbook, analysis, previous, difficulty, data_model, score,
                    rating, db, window, embedded >>

\* AnalyzeThread.run, lines 641-645 and 650-651
RunStoreEudaAnalysis ==
    /\ thread.pc = "store_euda_analysis"
    /\ \E fail \in StoreFailures, vector \in {"vector", "zeros"} :
          /\ fail = "embedding insert" => thread.summary # ""
          /\ LET stored == store_euda_analysis(db, thread.analysis,
                                               thread.summary, fail, vector)
             IN  /\ db' = stored.db
                 /\ embedded' = embedded \cup stored.texts
                 /\ thread' = IF stored.euda_id # 0
                              THEN [thread EXCEPT
                                      !.euda_id = stored.euda_id,
                                      !.pc = "get_euda_by_id",
                                      !.update_signal = "Analysis complete. EUDA ID: "
                                                           \o ToString(stored.euda_id)]
                              ELSE [thread EXCEPT
                                      !.pc = "close_excel",
                                      !.update_signal = "Error storing analysis."]
    /\ UNCHANGED << job, returned, formula, converted, vba_code, data_sources,
                    workbook, analysis, previous, difficulty, data_model, score,
                    rating, window >>

\* AnalyzeThread.run, lines 648-649 and 653-654: the row is read back and
\* emitted.  finished_signal is declared for a dict: emitting None, when
\* the read failed, either goes through or raises a TypeError, which the
\* except clause reports.
RunEmitFinished ==
    /\ thread.pc = "get_euda_by_id"
    /\ \E fail \in ReadFailures, rejected \in BOOLEAN :
          LET euda == get_euda_by_id(db, thread.euda_id, fail)
          IN  /\ rejected => DOMAIN euda = {}
              /\ db' = Connected(db, fail)
              /\ IF rejected
                 THEN /\ thread' = [thread EXCEPT !.pc = "close_excel",
                                                  !.update_signal = "Error: TypeError"]
                      /\ UNCHANGED window
                 ELSE /\ thread' = [thread EXCEPT !.pc = "close_excel",
                                                  !.finished_signal = @ + 1]
                      /\ window' = [window EXCEPT
                                      !.queue = Append(@, [run |-> thread.run,
                                                           euda |-> euda])]
    /\ UNCHANGED << job, returned, formula, converted, vba_code, data_sources,
                    workbook, analysis, previous, difficulty, data_model, score,
                    rating, embedded >>

\* AnalyzeThread.run, lines 656-658: the finally clause, on every path.
RunCloseExcel ==
    /\ thread.pc = "close_excel"
    /\ thread' = [close_excel(thread) EXCEPT !.pc = "ended"]
    /\ UNCHANGED << job, returned, formula, converted, vba_code, data_sources,
                    workbook, analysis, previous, difficulty, data_model, score,
                    rating, db, window, embedded >>

\* A queued finished signal reaches the window: analysis_complete (with
\* load_euda_details and load_eudas, each a read of the database), then
\* the accept of the progress dialog of the thread that emitted it.
AnalysisComplete ==
    /\ Len(window.queue) > 0
    /\ \E details \in ReadFailures, list \in ReadFailures :
          LET signal == Head(window.queue)
              given  == DOMAIN signal.euda # {}
              held   == [window EXCEPT !.current_euda = signal.euda.id]
              shown  == IF given
                        THEN [load_euda_details(held, db, signal.euda.id, details)
                                EXCEPT !.listed = get_all_eudas(db, list)]
                        ELSE window
          IN  /\ db' = IF given THEN Connected(Connected(db, details), list) ELSE db
              /\ window' = [shown EXCEPT !.queue = Tail(@),
                                         !.dialogs[signal.run] = "accepted"]
              /\ given \/ (details = "none" /\ list = "none")
    /\ UNCHANGED << job, returned, formula, converted, vba_code, data_sources,
                    workbook, analysis, previous, difficulty, data_model, score,
                    rating, thread, embedded >>

\* A click on a listed EUDA: MainWindow.load_euda_details.
LoadEudaDetails ==
    /\ ~ProgressDialogShown
    /\ \E i \in DOMAIN window.listed, fail \in ReadFailures :
          /\ window' = load_euda_details(window, db, window.listed[i], fail)
          /\ db' = Connected(db, fail)
    /\ UNCHANGED << job, returned, formula, converted, vba_code, data_sources,
                    workbook, analysis, previous, difficulty, data_model, score,
                    rating, thread, embedded >>

\* MainWindow.generate_python_code with an EUDA shown: a progress dialog
\* is shown and a GenerateCodeThread started on the EUDA.
GeneratePythonCode ==
    /\ ~ProgressDialogShown
    /\ window.current_euda # 0
    /\ window' = [window EXCEPT !.code_thread = window.current_euda]
    /\ UNCHANGED << job, returned, formula, converted, vba_code, data_sources,
                    workbook, analysis, previous, difficulty, data_model, score,
                    rating, thread, db, embedded >>

\* GenerateCodeThread.run and the delivery of its finished signal, which
\* it emits on either path: MainWindow.code_generation_complete and the
\* accept of the progress dialog.
CodeGenerationComplete ==
    /\ window.code_thread # 0
    /\ window' = [window EXCEPT
                    !.generated_code = generate_python_code(window.code_thread),
                    !.code_thread = 0]
    /\ UNCHANGED << job, returned, formula, converted, vba_code, data_sources,
                    workbook, analysis, previous, difficulty, data_model, score,
                    rating, thread, db, embedded >>

\* MainWindow.save_python_code with code held and a file chosen.
SavePythonCode ==
    /\ ~ProgressDialogShown
    /\ window.generated_code # NoCode
    /\ window' = [window EXCEPT !.saved = window.generated_code]
    /\ UNCHANGED << job, returned, formula, converted, vba_code, data_sources,
                    workbook, analysis, previous, difficulty, data_model, score,
                    rating, thread, db, embedded >>

Next ==
    \/ ConvertExcelFormulaToPandas
    \/ ExtractDataSourcesFromVba
    \/ GetComplexityRating
    \/ AnalyzeExcelFile
    \/ AnalyzeEditedWorkbook
    \/ EstimateRemediationDifficulty
    \/ CreateDataModelRecommendation
    \/ AnalyzeNewEuda
    \/ RunInitializeDatabase
    \/ RunAnalyzeExcelFile
    \/ RunAnalyzeEuda
    \/ RunStoreEudaAnalysis
    \/ RunEmitFinished
    \/ RunCloseExcel
    \/ AnalysisComplete
    \/ LoadEudaDetails
    \/ GeneratePythonCode
    \/ CodeGenerationComplete
    \/ SavePythonCode

Spec == Init /\ [][Next]_vars

\* The steps of a started thread, and the delivery of its queued signal by
\* the window's event loop, are taken sooner or later; starting another
\* analysis is the user's choice.
RunStep ==
    \/ RunInitializeDatabase
    \/ RunAnalyzeExcelFile
    \/ RunAnalyzeEuda
    \/ RunStoreEudaAnalysis
    \/ RunEmitFinished
    \/ RunCloseExcel

FairSpec ==
    Spec /\ WF_vars(RunStep) /\ WF_vars(AnalysisComplete)
         /\ WF_vars(CodeGenerationComplete)

(***************************************************************************)
(* Properties                                                              *)
(***************************************************************************)

Analyzed  == "analyze_excel_file" \in returned
Edited    == DOMAIN previous # {}
Rated     == "_get_complexity_rating" \in returned
Estimated == "estimate_remediation_difficulty" \in returned
Modelled  == "create_data_model_recommendation" \in returned
Converted == "convert_excel_formula_to_pandas" \in returned
Extracted == "extract_data_sources_from_vba" \in returned

\* The shape counts of a workbook are the counts the scorer makes in its
\* analysis.
FactorsAgree == Analyzed => Factors(analysis) = ShapeFactors(workbook)

\* C1: the complexity score of every analysis lies between 0 and 100.
C1_ScoreInRange ==
    Analyzed => analysis.complexity_score >= 0 /\ analysis.complexity_score <= 10000

\* C1 witness: every capped contribution at its cap (their sum is far above
\* 100) and the score exactly 100.
C1_Witness ==
    /\ Analyzed
    /\ workbook.sheets = MaxSheets /\ workbook.modules = MaxModules
    /\ workbook.connections = MaxConnections /\ workbook.risky = MaxRisky
    /\ analysis.complexity_score = 10000

\* C2: when a workbook is analyzed again after exactly one input of the
\* score grew (sheets, formulas, macro modules, connections, advanced
\* formulas, macro source length or risky modules, as the scorer counts
\* them), the new score is not below the old one.
C2_Monotonic ==
    Edited =>
        /\ Factors(analysis) = ShapeFactors(workbook)
        /\ GrowsOne(ShapeFactors(previous.workbook), ShapeFactors(workbook))
        /\ analysis.complexity_score >= previous.score

\* C2 witness: only the macro source length grew, and the score with it.
C2_Witness ==
    /\ Edited
    /\ ShapeFactors(previous.workbook)[6] < ShapeFactors(workbook)[6]
    /\ \A k \in (1..7) \ {6} :
          ShapeFactors(previous.workbook)[k] = ShapeFactors(workbook)[k]
    /\ analysis.complexity_score > previous.score

\* The five bands, boundaries in the upper band.
InBand(sc, r) ==
    /\ r = "Simple"       <=> sc < 2000
    /\ r = "Basic"        <=> sc >= 2000 /\ sc < 4000
    /\ r = "Moderate"     <=> sc >= 4000 /\ sc < 6000
    /\ r = "Complex"      <=> sc >= 6000 /\ sc < 8000
    /\ r = "Very Complex" <=> sc >= 8000

\* C3: the rating is the step function of the score with thresholds 20, 40,
\* 60 and 80, each threshold belonging to the upper band; a score of
\* exactly 20 is rated Basic.
C3_RatingBands ==
    /\ Rated => InBand(score, rating)
    /\ Rated /\ score = 2000 => rating = "Basic"
    /\ Analyzed => InBand(analysis.complexity_score, analysis.complexity_rating)

\* C3 witness: a score of exactly 20 rated Basic.
C3_Witness == Rated /\ score = 2000 /\ rating = "Basic"

\* Which factor a reason string speaks of.
ReasonKind(r) ==
    IF At("Contains ", r, 1) THEN "macros"
    ELSE IF At("Has ", r, 1) THEN "connections"
    ELSE IF At("Uses ", r, 1) THEN "advanced"
    ELSE "other"

\* The factors whose contribution to the difficulty score is not zero, in
\* the order macros, connections, advanced formulas.
ContributingFactors(a) ==
    (IF VbaShare(a) # 0 THEN << "macros" >> ELSE << >>)
        \o (IF ConnectionShare(a) # 0 THEN << "connections" >> ELSE << >>)
        \o (IF AdvancedShare(a) # 0 THEN << "advanced" >> ELSE << >>)

\* C4: the reasons list holds exactly one entry for each factor (macro
\* modules, connections, advanced formulas as the estimator counts them)
\* whose contribution is not zero, none for the others, in that order; 2
\* macro modules, no connection and 3 lookups give exactly 2 reasons.
C4_Reasons ==
    Estimated =>
        /\ [i \in 1..Len(difficulty.reasons) |-> ReasonKind(difficulty.reasons[i])]
               = ContributingFactors(analysis)
        /\ (Get(analysis, "vba_module_count", 0) = 2
              /\ Get(analysis, "connection_count", 0) = 0
              /\ advanced_function_count(analysis) = 3)
           => Len(difficulty.reasons) = 2

\* C4 witness: the estimate of the analysis with 2 macro modules, no
\* connection and 3 lookups.
C4_Witness ==
    /\ Estimated /\ job = "dict"
    /\ Get(analysis, "vba_module_count", 0) = 2
    /\ difficulty.reasons = << "Contains 2 VBA modules", "Uses 3 advanced Excel functions" >>

\* C5: the recognisers are tried in the order lookup, aggregate-sum,
\* conditional-aggregate, branching; the first whose pattern matches
\* anywhere in the formula decides the template, and the fallback is
\* produced only when none matches.
C5_FirstMatchWins ==
    Converted =>
        LET f  == Strip(formula)
            v  == vlookup_match(f).found
            sm == sum_match(f).found
            si == sumifs_match(f).found
            i  == if_match(f).found
        IN  /\ v => converted = EquivalentTo(f) \o VlookupTemplate(vlookup_match(f))
            /\ (~v /\ sm) => converted = EquivalentTo(f) \o SumTemplate
            /\ (~v /\ ~sm /\ si) => converted = EquivalentTo(f) \o SumifsTemplate
            /\ (~v /\ ~sm /\ ~si /\ i) =>
                  converted = EquivalentTo(f) \o IfTemplate(if_match(f))
            /\ (converted = NoEquivalent(f)) <=> (~v /\ ~sm /\ ~si /\ ~i)

\* C5 witness: a formula matched by both the aggregate-sum and the
\* branching pattern, the branch written first, given the sum template.
C5_Witness ==
    /\ Converted
    /\ formula = "=IF(A1>0,1,2)+SUM(A1:A3)"
    /\ ~vlookup_match(Strip(formula)).found
    /\ sum_match(Strip(formula)).found
    /\ if_match(Strip(formula)).found
    /\ converted = EquivalentTo(Strip(formula)) \o SumTemplate

\* C6: the classifier returns a string for every formula; a formula that no
\* pattern matches (the empty formula and truncated calls included) gets
\* the "no equivalent" fallback text.
C6_Fallback ==
    /\ (job = "classify" /\ ~Converted) =>
          convert_excel_formula_to_pandas(formula) \in STRING
    /\ Converted =>
          /\ Len(converted) > 0
          /\ (/\ ~vlookup_match(Strip(formula)).found
              /\ ~sum_match(Strip(formula)).found
              /\ ~sumifs_match(Strip(formula)).found
              /\ ~if_match(Strip(formula)).found)
             => converted = "# No direct pandas equivalent found for: "
                               \o Strip(formula)
                               \o "\n# Will need custom implementation"

\* C6 witness: the empty formula and a truncated lookup, each given the
\* fallback.
C6_Witness ==
    /\ Converted
    /\ \/ /\ formula = ""
          /\ converted = "# No direct pandas equivalent found for: \n# Will need custom implementation"
       \/ /\ formula = "=vlookup(A1,B:C"
          /\ converted = "# No direct pandas equivalent found for: =vlookup(A1,B:C\n# Will need custom implementation"

\* The text before the first line break.
RECURSIVE FirstLine(_)
FirstLine(s) ==
    IF Len(s) = 0 \/ Ch(s, 1) = "\n" THEN ""
    ELSE Ch(s, 1) \o FirstLine(SubSeq(s, 2, Len(s)))

\* C7: the first line of every output is a comment that repeats the formula
\* as given, less its leading and trailing white space.
C7_FirstLineEchoes ==
    Converted =>
        \/ FirstLine(converted) = "# Equivalent to: " \o Strip(formula)
        \/ FirstLine(converted) =
               "# No direct pandas equivalent found for: " \o Strip(formula)

\* C7 failing input: a sum followed by a line break and more formula text;
\* only the part before the break is on the comment line.
C7_Failing ==
    /\ Converted
    /\ formula = "=SUM(A1:A3)\nA1*2"
    /\ converted = "# Equivalent to: =SUM(A1:A3)\nA1*2\ndf[relevant_columns].sum()"
    /\ FirstLine(converted) = "# Equivalent to: =SUM(A1:A3)"

\* How often v occurs in the sequence q.
Occurs(v, q) == Cardinality({i \in 1..Len(q) : q[i] = v})

\* C8: the extractor returns no value twice, and exactly the values that the
\* five connection-string patterns and the three file-open patterns
\* capture; the empty text gives nothing; text holding
\* Provider=SQLOLEDB;Data Source=myserver; (once or twice) gives SQLOLEDB and
\* myserver once each.
C8_DistinctUnion ==
    Extracted =>
        /\ \A i, k \in 1..Len(data_sources) : data_sources[i] = data_sources[k] => i = k
        /\ Range(data_sources) = Range(AllMatches(vba_code))
        /\ vba_code = "" => data_sources = << >>
        /\ In("Provider=SQLOLEDB;Data Source=myserver;", vba_code)
           => Occurs("SQLOLEDB", data_sources) = 1 /\ Occurs("myserver", data_sources) = 1

\* C8 witness: the fragment twice in the text, each value once in the result.
C8_Witness ==
    /\ Extracted
    /\ vba_code = "Provider=SQLOLEDB;Data Source=myserver;Provider=SQLOLEDB;Data Source=myserver;"
    /\ Len(AllMatches(vba_code)) = 4
    /\ Len(data_sources) = 2

\* The sheets that qualify as entities, in sheet order.
RECURSIVE Qualifying(_)
Qualifying(sheets) ==
    IF Len(sheets) = 0 THEN << >>
    ELSE (IF \E word \in {"data", "table", "list", "master", "info"} :
                In(word, Lower(Head(sheets)))
          THEN << Head(sheets) >> ELSE << >>) \o Qualifying(Tail(sheets))

\* C9: one entity, in sheet order, for exactly the sheets whose name holds a
\* vocabulary word in any letter case, and no entity name still holds (in
\* any letter case) a vocabulary word that qualified its sheet;
\* CustomerData, OrderTable, Config give Customer and Order.
C9_EntityNames ==
    Modelled =>
        LET sheets == Qualifying(Get(analysis, "sheet_names", << >>))
            entities == data_model.entities
        IN  /\ Len(entities) = Len(sheets)
            /\ \A i \in 1..Len(entities) :
                  /\ entities[i].source = "Sheet: " \o sheets[i]
                  /\ \A word \in {"data", "table", "list", "master", "info"} :
                        In(word, Lower(sheets[i])) => ~In(word, Lower(entities[i].name))
            /\ Get(analysis, "sheet_names", << >>) = << "CustomerData", "OrderTable", "Config" >>
               => [i \in 1..Len(entities) |-> entities[i].name] = << "Customer", "Order" >>

\* C9 failing input: a sheet that qualifies by "master" keeps its whole name.
C9_Failing ==
    /\ Modelled /\ job = "dict"
    /\ Get(analysis, "sheet_names", << >>) = << "SalesMaster" >>
    /\ data_model.entities = << [name |-> "SalesMaster", source |-> "Sheet: SalesMaster"] >>

\* C10: for the workbook with no sheet, formula, macro module or connection
\* the complexity score is 0 and rated Simple, the difficulty estimate of
\* that analysis is score 0, rating Easy and no reason, and the data model
\* has no entity and no relationship.
C10_EmptySnapshot ==
    (job = "workbook" /\ workbook = NoWorkbook) =>
        /\ ~Analyzed => ENABLED AnalyzeExcelFile
        /\ Analyzed =>
              /\ analysis.complexity_score = 0
              /\ analysis.complexity_rating = "Simple"
              /\ ENABLED EstimateRemediationDifficulty \/ Estimated
              /\ ENABLED CreateDataModelRecommendation \/ Modelled
        /\ Estimated =>
              difficulty = [score |-> 0, rating |-> "Easy", reasons |-> << >>]
        /\ Modelled =>
              data_model.entities = << >> /\ data_model.relationships = << >>

\* C10 witness: the empty workbook analyzed, estimated and modelled.
C10_Witness ==
    /\ job = "workbook" /\ workbook = NoWorkbook
    /\ Analyzed /\ Estimated /\ Modelled
    /\ analysis.formulas = << >> /\ analysis.vba_modules = << >>
    /\ difficulty.score = 0 /\ data_model.entities = << >>

\* What one risky module adds to R, by its place among the risky modules:
\* object creation with the database library and "sql" (25), object
\* creation alone (5), "sql" alone (10).
RiskWeights == << 25, 5, 10 >>

RECURSIVE RiskOf(_)
RiskOf(risky) ==
    IF risky = 0 THEN 0 ELSE RiskWeights[((risky - 1) % 3) + 1] + RiskOf(risky - 1)

\* The sum S of the seven capped contributions of workbook w, in
\* hundredths, from what the workbook holds.
CappedSum(w) ==
    Min(500 * w.sheets, 3000)
        + Min(50 * (w.ifs + w.plains + w.vlookups), 3000)
        + Min(1000 * w.modules, 4000)
        + Min(200 * (w.ifs + w.vlookups), 2000)
        + Min(1500 * w.connections, 3000)
        + Min(w.modules * CodeUnit + w.padding, 2000)
        + Min(100 * RiskOf(w.risky), 3000)

\* C11: the complexity score of every workbook is min(100, S), S the sum of
\* min(5 x sheets, 30), min(0.5 x formulas, 30), min(10 x modules, 40),
\* min(2 x formulas with an advanced keyword, 20), min(15 x connections, 30),
\* min(source length / 100, 20) and min(R, 30), R adding per module 5 for
\* object creation, 10 for the database library, 10 for "sql".
C11_CappedSum ==
    Analyzed =>
        /\ analysis.complexity_score = Min(10000, CappedSum(workbook))
        /\ vba_complexity(analysis) = RiskOf(workbook.risky)

\* C11 witness: a workbook with each of the seven contributions above zero,
\* the connection one capped, and the sum below 100.
C11_Witness ==
    /\ Analyzed
    /\ \A i \in 1..7 : ShapeFactors(workbook)[i] > 0
    /\ workbook.connections * 1500 > 3000
    /\ CappedSum(workbook) < 10000
    /\ analysis.complexity_score = CappedSum(workbook)

\* C12: the difficulty score (in two-hundredths) of the analysis of every
\* workbook is half its complexity score plus min(5 x modules, 20),
\* min(5 x connections, 15) and min(advanced formulas, 15), the advanced
\* formulas being those the estimator counts (the lookups); it lies
\* between 0 and 100; the rating is Easy below 30, Moderate below 60,
\* Difficult below 80, Very Difficult from 80.
C12_DifficultyScore ==
    (Estimated /\ job = "workbook") =>
        /\ difficulty.score =
               Min(10000, CappedSum(workbook))
                   + 200 * Min(5 * workbook.modules, 20)
                   + 200 * Min(5 * workbook.connections, 15)
                   + 200 * Min(workbook.vlookups, 15)
        /\ difficulty.score >= 0 /\ difficulty.score <= 20000
        /\ difficulty.rating = "Easy" <=> difficulty.score < 6000
        /\ difficulty.rating = "Moderate"
              <=> (6000 <= difficulty.score /\ difficulty.score < 12000)
        /\ difficulty.rating = "Difficult"
              <=> (12000 <= difficulty.score /\ difficulty.score < 16000)
        /\ difficulty.rating = "Very Difficult" <=> 16000 <= difficulty.score

\* C12 witness: every contribution at its cap, the score 100.
C12_Witness ==
    /\ Estimated /\ job = "workbook"
    /\ workbook.vlookups > 15 /\ workbook.modules > 4 /\ workbook.connections >= 3
    /\ analysis.complexity_score = 10000
    /\ difficulty.score = 20000 /\ difficulty.rating = "Very Difficult"

\* C13: the estimator counts as advanced the formulas the scorer counts as
\* advanced, so a formula whose only advanced function is an IF adds to the
\* difficulty score and brings the advanced-formula reason.
C13_SameNotion ==
    (Estimated /\ job = "workbook") =>
        /\ advanced_function_count(analysis) = complex_formula_count(analysis)
        /\ complex_formula_count(analysis) > 0
           => \E i \in 1..Len(difficulty.reasons) :
                 ReasonKind(difficulty.reasons[i]) = "advanced"

\* C13 failing input: a workbook whose one formula is an IF.
C13_Failing ==
    /\ Estimated /\ job = "workbook"
    /\ workbook.ifs = 1 /\ workbook.plains = 0 /\ workbook.vlookups = 0
    /\ workbook.modules = 0 /\ workbook.connections = 0
    /\ complex_formula_count(analysis) = 1
    /\ advanced_function_count(analysis) = 0
    /\ difficulty.reasons = << >>
    /\ difficulty.score = analysis.complexity_score

\* The text after the last line break.
LastLine(s) ==
    LET breaks == {i \in 1..Len(s) : Ch(s, i) = "\n"}
    IN  IF breaks = {} THEN s ELSE SubSeq(s, SetMax(breaks) + 1, Len(s))

\* The match that decided the output for the stripped formula f.
DecidingMatch(f) ==
    IF vlookup_match(f).found THEN vlookup_match(f)
    ELSE IF sum_match(f).found THEN sum_match(f)
    ELSE IF sumifs_match(f).found THEN sumifs_match(f)
    ELSE if_match(f)

\* C14: every argument the deciding pattern extracts from the formula is
\* found verbatim in the rewritten expression (the last line of the output).
C14_ArgumentsVerbatim ==
    Converted =>
        LET m == DecidingMatch(Strip(formula))
        IN  m.found =>
               \A g \in 1..Len(m.groups) : In(m.groups[g], LastLine(converted))

\* C14 failing input: a sum, whose range is in no part of the expression.
C14_Failing ==
    /\ Converted
    /\ formula = "=SUM(A1:A3)"
    /\ sum_match(formula).groups = << "A1:A3" >>
    /\ converted = "# Equivalent to: =SUM(A1:A3)\ndf[relevant_columns].sum()"

\* The formulas the relationship scan reads.
Scanned(a) == Prefix(Get(a, "formulas", << >>), 50)

\* C15: for every formula among the first 50 that is a lookup and whose
\* sheet has an entity, and every other sheet whose name occurs in the
\* formula as written, the result holds the relationship from the formula's
\* sheet to that sheet.
C15_RelationshipsComplete ==
    Modelled =>
        LET sheets == Get(analysis, "sheet_names", << >>)
        IN  \A i \in 1..Len(Scanned(analysis)) :
              LET f == Scanned(analysis)[i]
              IN  (/\ IsLookup(Lower(f.formula))
                   /\ \E e \in 1..Len(data_model.entities) :
                         data_model.entities[e].source = "Sheet: " \o f.sheet)
                  => \A k \in 1..Len(sheets) :
                        (sheets[k] # f.sheet /\ In(sheets[k], f.formula))
                        => [from |-> f.sheet, to |-> sheets[k], type |-> "lookup"]
                              \in Range(data_model.relationships)

\* C15 failing input: a lookup on CustomerData into OrderTable.
C15_Failing ==
    /\ Modelled /\ job = "dict"
    /\ Get(analysis, "sheet_names", << >>) = << "CustomerData", "OrderTable" >>
    /\ Len(Scanned(analysis)) = 1
    /\ Scanned(analysis)[1].sheet = "CustomerData"
    /\ Scanned(analysis)[1].formula = "=VLOOKUP(A2,OrderTable!A:B,2,FALSE)"
    /\ Len(data_model.entities) = 2
    /\ data_model.relationships = << >>

\* C16: every relationship in the result is of type lookup, runs between
\* two different sheets, starts at the sheet of an entity of the same
\* result, and rests on a lookup among the first 50 formulas that is on its
\* `from` sheet and names its `to` sheet (in any letter case).
C16_RelationshipsSound ==
    Modelled =>
        \A r \in Range(data_model.relationships) :
            /\ r.type = "lookup" /\ r.to # r.from
            /\ \E e \in 1..Len(data_model.entities) :
                  data_model.entities[e].source = "Sheet: " \o r.from
            /\ \E i \in 1..Len(Scanned(analysis)) :
                  LET f == Scanned(analysis)[i]
                  IN  /\ f.sheet = r.from
                      /\ IsLookup(Lower(f.formula))
                      /\ In(Lower(r.to), Lower(f.formula))

\* C16 failing input: a lookup on sheet Q1, which has no entity, beside a
\* sheet ListQ1, which has one.
C16_Failing ==
    /\ Modelled /\ job = "dict"
    /\ Get(analysis, "sheet_names", << >>) = << "Q1", "ListQ1", "rates_table" >>
    /\ Len(Scanned(analysis)) = 1
    /\ Scanned(analysis)[1].sheet = "Q1"
    /\ ~IsEntitySheet("Q1")
    /\ data_model.relationships
          = << [from |-> "Q1", to |-> "rates_table", type |-> "lookup"] >>

\* A run of the analysis thread has ended.
Ended == thread.pc = "ended"

\* The progress dialog of the current run has been accepted.
Accepted == thread.run \in DOMAIN window.dialogs /\ window.dialogs[thread.run] = "accepted"

\* C17: every started run of the analysis thread emits finished_signal
\* exactly once, on the error paths as on the success path, so that the
\* progress dialog, which has no button, is accepted in the end.
C17_FinishedOnEveryPath ==
    /\ [](thread.finished_signal <= 1)
    /\ [](Ended => thread.finished_signal = 1)
    /\ \A r \in 1..MaxRuns :
          (thread.run = r /\ thread.pc = "initialize_database")
             ~> (r \in DOMAIN window.dialogs /\ window.dialogs[r] = "accepted")

\* The run ended on the analyzer's error without any finished_signal: the
\* dialog stays shown with nothing queued that would accept it.
C17_Failing ==
    /\ Ended /\ "error" \in DOMAIN thread.analysis
    /\ thread.finished_signal = 0
    /\ window.queue = << >>
    /\ window.dialogs[thread.run] = "shown"

C19_FailureNotPersisted ==
    /\ \A i \in DOMAIN db.eudas : db.eudas[i].summary \in LlmReplies
    /\ embedded \subseteq LlmReplies

\* The call failed, and the run stored its error text as the summary of
\* the new row after computing the row's embedding from it.
C19_Failing ==
    /\ thread.summary = ErrorSummary
    /\ thread.euda_id # 0
    /\ \E i \in DOMAIN db.eudas :
          db.eudas[i].id = thread.euda_id /\ db.eudas[i].summary = ErrorSummary
    /\ \E j \in DOMAIN db.euda_embeddings :
          db.euda_embeddings[j].euda_id = thread.euda_id
    /\ ErrorSummary \in embedded

\* The committed embedding rows of the EUDA with this id.
EmbeddingsOf(d, id) ==
    {j \in DOMAIN d.euda_embeddings :
        /\ d.euda_embeddings[j].euda_id = id
        /\ d.euda_embeddings[j].embedding_type = "summary"}

\* The committed eudas rows with this id.
RowsOf(d, id) == {i \in DOMAIN d.eudas : d.eudas[i].id = id}

C21_ConnectionsClosed == db.unclosed = FALSE

\* The first run's store_euda_analysis raised after connecting, at the
\* INSERT into eudas (no id was drawn), and returned None with its
\* connection open.
C21_Failing ==
    /\ thread.run = 1 /\ thread.pc = "close_excel"
    /\ thread.update_signal = "Error storing analysis."
    /\ db.serial = 1
    /\ db.unclosed

\* C22: whenever the window holds generated code, it is the code generated
\* for the EUDA in current_euda, and save_python_code writes no code
\* generated for another EUDA.
C22_CodeOfCurrentEuda ==
    /\ [](window.generated_code # NoCode
             => window.generated_code.euda = window.current_euda)
    /\ [][window'.saved # window.saved
             => window'.saved.euda = window.current_euda]_vars

\* Code was generated for the first EUDA; a second analysis completed and
\* its details could not be read back: current_euda is the second EUDA,
\* the code held is still the first one's, and the window is free to save it.
C22_Failing ==
    /\ window.current_euda = 2
    /\ window.generated_code # NoCode
    /\ window.generated_code.euda = 1
    /\ RowsOf(db, 1) # {} /\ RowsOf(db, 2) # {}
    /\ ~ProgressDialogShown

====
